---- MODULE Spec2Model ----
(***************************************************************************)
(* The Sharing Gateway of chatcraft.org: functions/api/share/[[user_id]].ts *)
(* (onRequestPut, onRequestGet, onRequestDelete) over an R2 bucket, with    *)
(* the token helpers it calls.  Every handler is modelled step by step at   *)
(* its await points: a Create verifies its token, later reads the time and  *)
(* lists, later puts; a Delete verifies and later deletes; a Read calls     *)
(* get() and later answers; so the clock and other invocations run in       *)
(* between.                                                                 *)
(* The login endpoint (handleLogin, onRequestGet of the login function) is  *)
(* modelled the same way, step by step at its calls of the identity         *)
(* provider and of the token codec.                                         *)
(***************************************************************************)
EXTENDS Integers, Sequences, FiniteSets, TLC

VARIABLES
    store,     \* the R2 bucket: the objects it holds, one per key
    clock,     \* wall clock in milliseconds (Date.now(), R2's upload stamp)
    handlers,  \* the invocations in flight, one per instance
    last,      \* the response just returned, with the request that got it
    races,     \* per owner, how many Creates put after their listing had changed
    latest,    \* per key, the body of the latest Create answered 200, unless a
               \* Delete answered 200 since
    login      \* the login endpoint: the request in flight and its response

vars == <<store, clock, handlers, last, races, latest, login>>

----------------------------------------------------------------------------
(* Program constants *)

\* "Only 500 total shares per user"
TotalLimit == 500
\* "Only 10 shares in 24 hours"
DailyLimit == 10
oneDayMS == 24 * 60 * 60 * 1000
JWT_SECRET == "jwt-secret"

(* Bounds of the model *)

\* how many times the clock advances
MaxTicks == 1
\* the time of the initial state: objects uploaded at 0 are exactly one day old
Clock0 == oneDayMS
Owners == {"alice", "bob"}
\* the instances that run Creates and Deletes, and the one that runs Reads
Handlers == {"h1", "h2"}
Readers == {"r1"}

----------------------------------------------------------------------------
(* Tokens and cookies *)

NoClaims == {}
\* a cookie value: absent, a JWT, or a string that is no JWT
MkToken(kind, sub, claims, exp, secret) ==
    [kind |-> kind, sub |-> sub, claims |-> claims, exp |-> exp, secret |-> secret]
NoToken == MkToken("absent", "", NoClaims, 0, "")
Garbage == MkToken("garbage", "", NoClaims, 0, "")
FarFuture == Clock0 + 7 * oneDayMS
AccessFor(user) == MkToken("jwt", user, {<<"role", "api">>}, FarFuture, JWT_SECRET)
AliceApi == AccessFor("alice")
BobApi == AccessFor("bob")
AliceUser == MkToken("jwt", "alice", {<<"role", "user">>}, FarFuture, JWT_SECRET)
BobNoRole == MkToken("jwt", "bob", NoClaims, FarFuture, JWT_SECRET)
AliceExpired == MkToken("jwt", "alice", {<<"role", "api">>}, 0, JWT_SECRET)
\* a token in its last millisecond at the time of the initial state
AliceExpiring == MkToken("jwt", "alice", {<<"role", "api">>}, Clock0, JWT_SECRET)
IdFor(user) == MkToken("jwt", user, {<<"username", user>>}, FarFuture, JWT_SECRET)

\* `!token` of the handlers: a cookie that getTokens did not find
Missing(token) == token.kind = "absent"

\* verifyToken(token, secret) at time now: a payload, null, or an exception
VerifyToken(token, secret, now) ==
    IF token.kind # "jwt"
    THEN [outcome |-> "throw", sub |-> "", claims |-> NoClaims]
    ELSE IF token.secret # secret \/ now > token.exp
         THEN [outcome |-> "null", sub |-> "", claims |-> NoClaims]
         ELSE [outcome |-> "payload", sub |-> token.sub, claims |-> token.claims]
VerifyError == "token must consist of 3 parts"

\* payload.role / payload?.role: the claim's value, or undefined
Role(payload) ==
    IF \E c \in payload.claims : c[1] = "role"
    THEN <<(CHOOSE c \in payload.claims : c[1] = "role")[2]>>
    ELSE <<>>

\* serializeToken(name, token): the Set-Cookie header value
SerializeToken(name, token) == [name |-> name, value |-> token]

----------------------------------------------------------------------------
(* Requests and responses *)

NoContentType == [present |-> FALSE, parts |-> <<>>]
ContentType(parts) == [present |-> TRUE, parts |-> parts]
Json == ContentType(<<"application/json", "; charset=utf-8">>)
Text == ContentType(<<"text/plain">>)

MkRequest(op, path, access, id, ct, body) ==
    [op |-> op, path |-> path, accessToken |-> access, idToken |-> id,
     contentType |-> ct, body |-> body]
NoRequest == MkRequest("none", <<>>, NoToken, NoToken, NoContentType, "")

Response(status, message, detail, cookies, body) ==
    [status |-> status, message |-> message, detail |-> detail,
     cookies |-> cookies, body |-> body]
\* errorResponse(statusCode, message)
errorResponse(status, message, detail) == Response(status, message, detail, <<>>, "")
NoResponse == Response(0, "", <<>>, <<>>, "")

StorageError == "storage failure"

----------------------------------------------------------------------------
(* The bucket *)

\* user_id.join("/")
Key(user_id) == <<user_id[1], user_id[2]>>
\* an R2 object: its key, its upload time and its body
Object(key, uploaded, body) == [key |-> key, uploaded |-> uploaded, body |-> body]
\* CHATCRAFT_ORG_BUCKET.list({ prefix: `${user}/` })
List(bucket, user) == {o \in bucket : o.key[1] = user}
\* what a handler reads of the objects listed: how many and when uploaded
Listed(objects) == {[key |-> o.key, uploaded |-> o.uploaded] : o \in objects}
\* CHATCRAFT_ORG_BUCKET.get(key): the object, or none
BucketGet(bucket, key) == {o \in bucket : o.key = key}
\* an object that exists is not replaced
BucketPut_NoOverwrite(bucket, key, body, now) ==
    IF \E o \in bucket : o.key = key THEN bucket
    ELSE bucket \cup {Object(key, now, body)}
\* CHATCRAFT_ORG_BUCKET.put(key, body) at time now
BucketPut(bucket, key, body, now) ==
    {o \in bucket : o.key # key} \cup {Object(key, now, body)}
\* the object kept, so that it still shows in listings
BucketDelete_Kept(bucket, key) == bucket
\* every object under the owner's prefix deleted
BucketDelete_Prefix(bucket, key) == {o \in bucket : o.key[1] # key[1]}
\* CHATCRAFT_ORG_BUCKET.delete(key)
BucketDelete(bucket, key) == {o \in bucket : o.key # key}
\* the keys at which two buckets differ
Diff(old, new) == {o.key : o \in (old \ new) \cup (new \ old)}
\* the window's comparison the wrong way round
RecentShares_Flipped(objects, now) ==
    {o \in objects : now - o.uploaded > oneDayMS}
\* recentShares: the listed objects uploaded less than a day before now
RecentShares(objects, now) ==
    {o \in objects : now - o.uploaded < oneDayMS}

----------------------------------------------------------------------------
(* The checks of the handlers, in the order of the code *)

\* contentType?.includes("application/json")
ExpectsJson(ct) ==
    ct.present /\ \E i \in 1..Len(ct.parts) : ct.parts[i] = "application/json"
\* a longer path accepted
ValidKeyShape_AtLeastTwo(user_id) == Len(user_id) >= 2
\* Array.isArray(user_id) && user_id.length === 2
ValidKeyShape(user_id) == Len(user_id) = 2
\* the subject never compared with the path's user
SubjectMatches_Any(user, payload) == payload.outcome = "payload"
\* user === payload.sub (Delete: payload?.sub, undefined for a null payload)
SubjectMatches(user, payload) == payload.outcome = "payload" /\ user = payload.sub
\* any role accepted
HasApiRole_Truthy(payload) == payload.outcome = "payload" /\ Role(payload) # <<>>
\* payload.role === "api"
HasApiRole(payload) == payload.outcome = "payload" /\ Role(payload) = <<"api">>
\* objects.length > 500
ExceedsTotal(n) == n > TotalLimit
\* recentShares.length > 10
ExceedsDaily(n) == n > DailyLimit

\* what a run of checks yields: the error response of the first check that
\* failed (none when all passed), the downstream calls made, the payload verified
NoPayload == [outcome |-> "none", sub |-> "", claims |-> NoClaims]
Outcome(resp, calls, payload) == [resp |-> resp, calls |-> calls, payload |-> payload]
Pass(calls, payload) == Outcome(NoResponse, calls, payload)
Passed(outcome) == outcome.resp = NoResponse

\* the id_token cookie never asked for
CookieChecks_NoIdCheck(req) ==
    IF Missing(req.accessToken)
    THEN Outcome(errorResponse(403, "Missing Access Token", <<>>), <<>>, NoPayload)
    ELSE Pass(<<>>, NoPayload)

\* the id_token cookie required to be a token signed with the secret
CookieChecks_VerifyId(req) ==
    IF Missing(req.accessToken)
    THEN Outcome(errorResponse(403, "Missing Access Token", <<>>), <<>>, NoPayload)
    ELSE IF Missing(req.idToken)
         THEN Outcome(errorResponse(403, "Missing ID Token", <<>>), <<>>, NoPayload)
         ELSE IF req.idToken.kind # "jwt" \/ req.idToken.secret # JWT_SECRET
              THEN Outcome(errorResponse(403, "Invalid ID Token", <<>>), <<>>, NoPayload)
              ELSE Pass(<<>>, NoPayload)

\* getTokens and the two cookie checks that open Create and Delete
CookieChecks(req) ==
    IF Missing(req.accessToken)
    THEN Outcome(errorResponse(403, "Missing Access Token", <<>>), <<>>, NoPayload)
    ELSE IF Missing(req.idToken)
         THEN Outcome(errorResponse(403, "Missing ID Token", <<>>), <<>>, NoPayload)
         ELSE Pass(<<>>, NoPayload)

ShapeError ==
    errorResponse(400, "Expected share URL of the form /api/share/{user}/{id}", <<>>)

\* Create's try block from the result of verifyToken up to `now`: the payload
\* (an exception goes to the catch), its subject, its role
PutTokenChecks(req, payload) ==
    LET user == req.path[1]
    IN  IF payload.outcome = "throw"
        THEN Outcome(errorResponse(400, VerifyError, <<>>), <<"verify">>, payload)
        ELSE IF payload.outcome = "null"
        THEN Outcome(errorResponse(403, "Invalid Access Token", <<>>), <<"verify">>,
                     payload)
        ELSE IF ~SubjectMatches(user, payload)
        THEN Outcome(errorResponse(403, "Access Token does not match username", <<>>),
                     <<"verify">>, payload)
        ELSE IF ~HasApiRole(payload)
        THEN Outcome(errorResponse(403, "Access Token missing 'api' role", <<>>),
                     <<"verify">>, payload)
        ELSE Pass(<<"verify">>, payload)

\* onRequestPut from its first line to the call of verifyToken
PutChecks(req) ==
    IF ~Passed(CookieChecks(req)) THEN CookieChecks(req)
    ELSE IF ~ExpectsJson(req.contentType)
    THEN Outcome(errorResponse(400, "Expected JSON", <<>>), <<>>, NoPayload)
    ELSE IF ~ValidKeyShape(req.path) THEN Outcome(ShapeError, <<>>, NoPayload)
    ELSE Pass(<<>>, NoPayload)

\* the 24-hour quota checked before the total quota
QuotaChecks_DailyFirst(total, recent, calls, payload) ==
    IF ExceedsDaily(recent)
    THEN Outcome(errorResponse(429, "Too many shares in a 24-hour period", <<>>),
                 calls, payload)
    ELSE IF ExceedsTotal(total)
    THEN Outcome(errorResponse(403, "Exceeded total share limit", <<>>), calls, payload)
    ELSE Pass(calls, payload)

\* Create's two quota checks on the listing
QuotaChecks(total, recent, calls, payload) ==
    IF ExceedsTotal(total)
    THEN Outcome(errorResponse(403, "Exceeded total share limit", <<>>), calls, payload)
    ELSE IF ExceedsDaily(recent)
    THEN Outcome(errorResponse(429, "Too many shares in a 24-hour period", <<>>),
                 calls, payload)
    ELSE Pass(calls, payload)

\* the role never checked
DeleteTokenChecks_NoRole(req, payload) ==
    LET user == req.path[1]
    IN  IF payload.outcome = "throw"
        THEN Outcome(errorResponse(400, VerifyError, <<>>), <<"verify">>, payload)
        ELSE IF ~SubjectMatches(user, payload)
        THEN Outcome(errorResponse(403, "Access Token does not match username", <<>>),
                     <<"verify">>, payload)
        ELSE Pass(<<"verify">>, payload)

\* Delete's try block from the result of verifyToken on: an exception goes to
\* the catch, then the payload's subject and role
DeleteTokenChecks(req, payload) ==
    LET user == req.path[1]
    IN  IF payload.outcome = "throw"
        THEN Outcome(errorResponse(400, VerifyError, <<>>), <<"verify">>, payload)
        ELSE IF ~SubjectMatches(user, payload)
        THEN Outcome(errorResponse(403, "Access Token does not match username", <<>>),
                     <<"verify">>, payload)
        ELSE IF ~HasApiRole(payload)
        THEN Outcome(errorResponse(403, "Access Token missing 'api' role", <<>>),
                     <<"verify">>, payload)
        ELSE Pass(<<"verify">>, payload)

\* onRequestDelete from its first line to the call of verifyToken
DeleteChecks(req) ==
    IF ~Passed(CookieChecks(req)) THEN CookieChecks(req)
    ELSE IF ~ValidKeyShape(req.path) THEN Outcome(ShapeError, <<>>, NoPayload)
    ELSE Pass(<<>>, NoPayload)

\* the 200 response of Create and Delete, which sets both cookies again
SuccessResponse(message, req) ==
    Response(200, message, <<>>,
             <<SerializeToken("access_token", req.accessToken),
               SerializeToken("id_token", req.idToken)>>, "")

\* the 200 response of Read: the object's body, its metadata and etag
ObjectResponse(object) == Response(200, "", <<>>, <<>>, object.body)

\* a Read that asks for the access_token cookie
GetResponse_Private(req, bucket, fails) ==
    IF ~ValidKeyShape(req.path) THEN Outcome(ShapeError, <<>>, NoPayload)
    ELSE IF Missing(req.accessToken)
    THEN Outcome(errorResponse(403, "Missing Access Token", <<>>), <<>>, NoPayload)
    ELSE IF fails
    THEN Outcome(errorResponse(500, "Unable to get chat: ", <<StorageError>>),
                 <<"get">>, NoPayload)
    ELSE IF BucketGet(bucket, Key(req.path)) = {}
    THEN Outcome(errorResponse(404, " not found", Key(req.path)), <<"get">>,
                 NoPayload)
    ELSE Outcome(ObjectResponse(CHOOSE o \in BucketGet(bucket, Key(req.path)) : TRUE),
                 <<"get">>, NoPayload)
\* onRequestGet, from the request and the bucket to the response: the key's
\* shape, get(), and the object or 404 (500 when get() throws)
GetResponse(req, bucket, fails) ==
    IF ~ValidKeyShape(req.path) THEN Outcome(ShapeError, <<>>, NoPayload)
    ELSE IF fails
    THEN Outcome(errorResponse(500, "Unable to get chat: ", <<StorageError>>),
                 <<"get">>, NoPayload)
    ELSE IF BucketGet(bucket, Key(req.path)) = {}
    THEN Outcome(errorResponse(404, " not found", Key(req.path)), <<"get">>,
                 NoPayload)
    ELSE Outcome(ObjectResponse(CHOOSE o \in BucketGet(bucket, Key(req.path)) : TRUE),
                 <<"get">>, NoPayload)

----------------------------------------------------------------------------
(* The login endpoint: its request, the identity provider, its responses *)

CLIENT_ID == "client-id"

\* a query parameter, or any value that may be null: <<>> is null, <<v>> is v
None == <<>>
Some(v) == <<v>>
\* `!v` for a string or null: null and the empty string are falsy
Falsy(v) == v = None \/ v = Some("")

\* the login request's query parameters code, chat_id and state
LoginRequest(code, chat_id, state) == [code |-> code, chat_id |-> chat_id, state |-> state]
NoLoginRequest == LoginRequest(None, None, None)
\* searchParams.get("chat_id") || searchParams.get("state")
ChatId(req) == IF Falsy(req.chat_id) THEN req.state ELSE req.chat_id

\* a URL: its origin, the names its path consists of (percent-decoded; the
\* empty name that a final slash leaves is not among them, so that / has none
\* and /c/ has one), its query parameters in order, its fragment if any
Url(origin, path, query) ==
    [origin |-> origin, path |-> path, query |-> query, fragment |-> None]
\* buildUrl(url, params)
buildUrl(origin, path, params) == Url(origin, path, params)
\* the value of a query parameter, as the provider reads it
QueryGet(url, name) ==
    IF \E i \in 1..Len(url.query) : url.query[i][1] = name
    THEN Some(url.query[CHOOSE i \in 1..Len(url.query) : url.query[i][1] = name][2])
    ELSE None
GitHub == "https://github.com"
ChatCraft == "https://chatcraft.org"
\* the state parameter left out even when there is a chat id
AuthorizeUrl_NoState(chatId) ==
    buildUrl(GitHub, <<"login", "oauth", "authorize">>, <<<<"client_id", CLIENT_ID>>>>)
\* the provider's authorization page, with the chat id as state when there is one
AuthorizeUrl(chatId) ==
    IF Falsy(chatId)
    THEN buildUrl(GitHub, <<"login", "oauth", "authorize">>, <<<<"client_id", CLIENT_ID>>>>)
    ELSE buildUrl(GitHub, <<"login", "oauth", "authorize">>,
                  <<<<"client_id", CLIENT_ID>>, <<"state", chatId[1]>>>>)

(* new URL(input, base) for an input that begins with a slash, read by the   *)
(* URL parser of the platform: it drops white space from the end and tabs    *)
(* and line breaks from everywhere, ends the path at the first ? or #, cuts  *)
(* it into segments at every / and \, and resolves the segments . and ..     *)
(* (also written %2e).  The characters dealt with are letters, digits and    *)
(* / \ . ? # = & %, the space, the tab and the line break.                   *)

\* the character at a position of a string
Char(s, i) == SubSeq(s, i, i)
\* the strings of a sequence, joined
Join[parts \in Seq(STRING)] ==
    IF parts = <<>> THEN "" ELSE Head(parts) \o Join[Tail(parts)]
\* the first position of s that holds one of the characters cs, one past the
\* end when none does
First[s \in STRING, cs \in SUBSET STRING] ==
    CHOOSE i \in 1..(Len(s) + 1) :
        /\ i = Len(s) + 1 \/ Char(s, i) \in cs
        /\ \A j \in 1..(i - 1) : Char(s, j) \notin cs
\* the pieces of s that follow each of its characters out of cs, in order
Split[s \in STRING, cs \in SUBSET STRING] ==
    LET seps == {p \in 1..Len(s) : Char(s, p) \in cs}
        nth(k) == CHOOSE p \in seps : Cardinality({r \in seps : r <= p}) = k
    IN  [k \in 1..Cardinality(seps) |->
            SubSeq(s, nth(k) + 1,
                   IF k = Cardinality(seps) THEN Len(s) ELSE nth(k + 1) - 1)]
\* white space stripped from the end, tabs and line breaks removed everywhere
WhiteSpace == {" ", "\t", "\n", "\r"}
Clean[input \in STRING] ==
    LET end == CHOOSE k \in 0..Len(input) :
                   /\ k = 0 \/ Char(input, k) \notin WhiteSpace
                   /\ \A j \in (k + 1)..Len(input) : Char(input, j) \in WhiteSpace
    IN  Join[[k \in 1..end |->
                 IF Char(input, k) \in {"\t", "\n", "\r"} THEN "" ELSE Char(input, k)]]
\* the hexadecimal digits, and the value of one
UpperHex ==
    <<"0", "1", "2", "3", "4", "5", "6", "7", "8", "9", "A", "B", "C", "D", "E", "F">>
LowerHex ==
    <<"0", "1", "2", "3", "4", "5", "6", "7", "8", "9", "a", "b", "c", "d", "e", "f">>
IsHex(c) == \E k \in 1..16 : c = UpperHex[k] \/ c = LowerHex[k]
HexValue[c \in STRING] ==
    (CHOOSE k \in 1..16 : c = UpperHex[k] \/ c = LowerHex[k]) - 1
\* the characters of the bytes 20 to 7E, in order, but for the grave accent (60)
Printable ==
    <<
      " ", "!", "\"", "#", "$", "%", "&", "'", "(", ")", "*", "+",
      ",", "-", ".", "/", "0", "1", "2", "3", "4", "5", "6", "7",
      "8", "9", ":", ";", "<", "=", ">", "?", "@", "A", "B", "C",
      "D", "E", "F", "G", "H", "I", "J", "K", "L", "M", "N", "O",
      "P", "Q", "R", "S", "T", "U", "V", "W", "X", "Y", "Z", "[",
      "\\", "]", "^", "_", "a", "b", "c", "d", "e", "f", "g", "h",
      "i", "j", "k", "l", "m", "n", "o", "p", "q", "r", "s", "t",
      "u", "v", "w", "x", "y", "z", "{", "|", "}", "~"
    >>
\* a percent escape: % and two hexadecimal digits; the byte it stands for
IsEscape(e) ==
    /\ Len(e) = 3
    /\ Char(e, 1) = "%"
    /\ IsHex(Char(e, 2))
    /\ IsHex(Char(e, 3))
Byte[e \in STRING] == 16 * HexValue[Char(e, 2)] + HexValue[Char(e, 3)]
\* the character of a byte: a tab, a line break or a character of Printable;
\* any other byte (another control character, the grave accent, a byte above
\* 7E) has no character here and is written as a form feed and the byte's
\* two hexadecimal digits, which is no part of any input dealt with
Character[b \in Int] ==
    IF b = 9 THEN "\t"
    ELSE IF b = 10 THEN "\n"
    ELSE IF b = 13 THEN "\r"
    ELSE IF b \in 32..95 THEN Printable[b - 31]
    ELSE IF b \in 97..126 THEN Printable[b - 32]
    ELSE "\f" \o UpperHex[(b \div 16) + 1] \o UpperHex[(b % 16) + 1]
\* a string with its percent escapes decoded; a % that no two hexadecimal
\* digits follow stands for itself
Decode[s \in STRING] ==
    LET starts == {i \in 1..(Len(s) - 2) : IsEscape(SubSeq(s, i, i + 2))}
        piece(i) == IF i \in starts THEN Character[Byte[SubSeq(s, i, i + 2)]]
                    ELSE IF i - 1 \in starts \/ i - 2 \in starts THEN ""
                    ELSE Char(s, i)
    IN  Join[[i \in 1..Len(s) |-> piece(i)]]
\* a name or value of a query as searchParams reads it: + is a space, then
\* the percent escapes are decoded
FormDecode[s \in STRING] ==
    Decode[Join[[i \in 1..Len(s) |-> IF Char(s, i) = "+" THEN " " ELSE Char(s, i)]]]
\* the segments that stand for "this directory" and "the directory above"
SingleDot(buffer) == buffer \in {".", "%2e", "%2E"}
DoubleDot(buffer) ==
    buffer \in {"..", ".%2e", ".%2E", "%2e.", "%2E.",
                "%2e%2e", "%2e%2E", "%2E%2e", "%2E%2E"}
\* the segments that are in the path once . and .. are resolved: . adds
\* nothing, .. takes away the last segment the path has by then, if any; so a
\* segment stays unless from some point after it on the .. outnumber the
\* segments added
Resolved[segments \in Seq(STRING)] ==
    {a \in 1..Len(segments) :
        /\ ~SingleDot(segments[a]) /\ ~DoubleDot(segments[a])
        /\ \A b \in (a + 1)..Len(segments) :
              Cardinality({x \in (a + 1)..b : DoubleDot(segments[x])})
                 <= Cardinality({x \in (a + 1)..b :
                                    ~SingleDot(segments[x]) /\ ~DoubleDot(segments[x])})}
\* the segments at the positions kept, in order, decoded
Kept[segments \in Seq(STRING), kept \in SUBSET Int] ==
    LET nth(k) == CHOOSE a \in kept : Cardinality({x \in kept : x <= a}) = k
    IN  [k \in 1..Cardinality(kept) |-> Decode[segments[nth(k)]]]
\* the names of a path: its resolved segments in order, decoded, without the
\* empty segment that a final slash leaves
Names[pathname \in STRING] ==
    LET segments == Split[pathname, {"/", "\\"}]
        n == Len(segments)
    IN  Kept[segments, {a \in Resolved[segments] : ~(a = n /\ segments[a] = "")}]
\* the parameters of a query string: its non-empty parts between the &, each
\* a name and, after the first =, a value
NonEmpty(part) == part # ""
QueryPair[part \in STRING] ==
    LET e == First[part, {"="}]
    IN  <<FormDecode[SubSeq(part, 1, e - 1)],
          FormDecode[SubSeq(part, e + 1, Len(part))]>>
QueryPairs[query \in STRING] ==
    LET parts == SelectSeq(Split["&" \o query, {"&"}], NonEmpty)
    IN  [k \in 1..Len(parts) |-> QueryPair[parts[k]]]
\* a cleaned input, the position h of its first # and the position q of the
\* first ? before that, taken apart
Parts[s \in STRING, h \in Int, q \in Int, base \in STRING] ==
    [origin |-> base,
     path |-> Names[SubSeq(s, 1, q - 1)],
     query |-> IF q >= h THEN <<>> ELSE QueryPairs[SubSeq(s, q + 1, h - 1)],
     fragment |-> IF h > Len(s) THEN None ELSE Some(Decode[SubSeq(s, h + 1, Len(s))])]
\* new URL(input, base).href
URL(input, base) ==
    LET s == Clean[input]
        h == First[s, {"#"}]
    IN  Parts[s, h, First[SubSeq(s, 1, h - 1), {"?"}], base]

\* new URL(chatId ? `/c/${chatId}` : "/", "https://chatcraft.org")
ChatUrl(chatId) ==
    IF Falsy(chatId) THEN URL("/", ChatCraft)
    ELSE URL("/c/" \o chatId[1], ChatCraft)
\* https://chatcraft.org/?github_login_error
ErrorUrl == Url(ChatCraft, <<>>, <<<<"github_login_error", "">>>>)

\* a response of the login endpoint: status, Location, Set-Cookie headers, body
LoginResponse(status, location, cookies, body) ==
    [status |-> status, location |-> location, cookies |-> cookies, body |-> body]
NoLoginResponse == LoginResponse(0, Url("", <<>>, <<>>), <<>>, None)
\* Response.redirect(url, 302)
Redirect(url) == LoginResponse(302, url, <<>>, None)

\* the identity provider: the codes it accepts, the token it gives for a code
\* and the profile it gives for a token (null: the call throws)
requestAccessToken(code) ==
    CASE code = "code-alice" -> Some("gh-alice")
      [] code = "code-bob" -> Some("gh-bob")
      [] OTHER -> None
Profile(username) == {<<"username", username>>}
requestUserInfo(ghAccessToken) ==
    CASE ghAccessToken = "gh-alice" -> Profile("alice")
      [] ghAccessToken = "gh-bob" -> Profile("bob")
      [] OTHER -> {}
\* user.username
Username(user) == (CHOOSE c \in user : c[1] = "username")[2]

\* createToken(subject, claims, secret) at time now: a token signed with the
\* secret that expires a fixed time after it is issued
TokenLifetime == 7 * oneDayMS
createToken(sub, claims, secret, now) ==
    MkToken("jwt", sub, claims, now + TokenLifetime, secret)
\* createToken(user.username, user, JWT_SECRET)
MintIdToken(user, now) == createToken(Username(user), user, JWT_SECRET, now)
\* the profile put into the access token along with the role
MintAccessToken_WithProfile(user, now) ==
    createToken(Username(user), user \cup {<<"role", "api">>}, JWT_SECRET, now)
\* the role claim left out of the access token
MintAccessToken_NoRole(user, now) ==
    createToken(Username(user), NoClaims, JWT_SECRET, now)
\* createToken(user.username, { role: "api" }, JWT_SECRET)
MintAccessToken(user, now) ==
    createToken(Username(user), {<<"role", "api">>}, JWT_SECRET, now)

\* the response of a completed login: the redirect back into the application
\* with both cookies
LoginCompleted(chatId, accessToken, idToken) ==
    LoginResponse(302, ChatUrl(chatId),
                  <<SerializeToken("access_token", accessToken),
                    SerializeToken("id_token", idToken)>>, None)
\* the identity token, if minted before the failure, sent along all the same
LoginFailed_PartialCookie(idToken) ==
    LoginResponse(302, ErrorUrl,
                  IF idToken = NoToken THEN <<>>
                  ELSE <<SerializeToken("id_token", idToken)>>, None)
\* the error not caught: the platform answers 500 with an error page
LoginFailed_Uncaught(idToken) ==
    LoginResponse(500, Url("", <<>>, <<>>), <<>>, Some("Internal Server Error"))
\* the catch block, entered with whatever the try block had got to
LoginFailed(idToken) == Redirect(ErrorUrl)

----------------------------------------------------------------------------
(* State *)

\* the authorization the browser was sent to the provider for: the state the
\* redirect carried and the chat_id of the request that was redirected
Pending(state, chat) == [waiting |-> TRUE, state |-> state, chat |-> chat]
NoPending == [waiting |-> FALSE, state |-> None, chat |-> None]
\* the login endpoint: where the request in flight stands (idle, exchanging,
\* profiling, mintingId, mintingAccess, done), the request and its chatId, the
\* locals of handleLogin, the calls made, whether one failed, the response;
\* and, for a request that comes back from the provider, the chat_id the
\* login began with
NoLogin ==
    [pc |-> "idle", req |-> NoLoginRequest, chatId |-> None, echoed |-> FALSE,
     origin |-> None, started |-> 0, ghAccessToken |-> None, user |-> {},
     idToken |-> NoToken, calls |-> <<>>, failed |-> FALSE,
     resp |-> NoLoginResponse, pending |-> NoPending]

NoSeen == [total |-> 0, recent |-> 0]
\* a handler instance: where its request stands (idle, verifying, listing,
\* putting, deleting, getting), the request, the locals payload, now and
\* objects (the listing as list() returned it) with its counts, the calls
\* made; and for a Read, whether a put or delete of its key was under way at
\* some moment since get() was called
Idle == [pc |-> "idle", req |-> NoRequest, now |-> 0, calls |-> <<>>,
         payload |-> NoPayload, seen |-> NoSeen, objects |-> {},
         overlapped |-> FALSE]
\* a response with the request it answers and what handling the request did;
\* stale: of a Create, that the listing it had taken no longer held when it
\* put; of a Read, that a put or delete of its key was under way while it was
\* in flight
Answer(req, resp, calls, payload, mutated, seen, stale) ==
    [req |-> req, resp |-> resp, calls |-> calls, payload |-> payload,
     mutated |-> mutated, seen |-> seen, stale |-> stale]
NoLast == Answer(NoRequest, NoResponse, <<>>, NoPayload, {}, NoSeen, FALSE)

\* what the clients were told: per key, the body of the latest Create that
\* was answered 200, unless a Delete of the key was answered 200 since.  It is
\* kept from the responses alone; the objects of the initial bucket count as
\* created by Creates answered before.
Contents(bucket) == {[key |-> o.key, body |-> o.body] : o \in bucket}
Written(seen, key, body) == {r \in seen : r.key # key} \cup {[key |-> key, body |-> body]}
Erased(seen, key) == {r \in seen : r.key # key}
Observed(seen, answer) ==
    IF answer.resp.status = 200 /\ answer.req.op = "PUT"
    THEN Written(seen, Key(answer.req.path), answer.req.body)
    ELSE IF answer.resp.status = 200 /\ answer.req.op = "DELETE"
    THEN Erased(seen, Key(answer.req.path))
    ELSE seen
NoRaces == [owner \in Owners |-> 0]
\* has a Create put an object after its listing had changed?
raced == \E owner \in Owners : races[owner] > 0

EmptyBucket == {}
\* a bucket in which alice holds old objects, uploaded a day ago or more, and
\* recent objects, uploaded less than a day ago, and bob holds two recent ones
Populated(old, recent) ==
    {Object(<<"alice", 100 + i>>, 0, "b0") : i \in 1..old}
    \cup {Object(<<"alice", 100 + old + i>>, 1, "b0") : i \in 1..recent}
    \cup {Object(<<"bob", 100 + i>>, 1, "b0") : i \in 1..2}

\* the bucket is empty, or alice is at the daily limit
Init ==
    /\ store \in {EmptyBucket, Populated(0, DailyLimit)}
    /\ clock = Clock0
    /\ handlers = [h \in Handlers \cup Readers |-> Idle]
    /\ last = NoLast
    /\ races = NoRaces
    /\ latest = Contents(store)
    /\ login = NoLogin

\* alice is at the daily limit and far from the total limit
InitQuota ==
    /\ store = Populated(0, DailyLimit)
    /\ clock = Clock0
    /\ handlers = [h \in Handlers \cup Readers |-> Idle]
    /\ last = NoLast
    /\ races = NoRaces
    /\ latest = Contents(store)
    /\ login = NoLogin

\* alice is at the total limit and at the daily limit
InitTotal ==
    /\ store = Populated(TotalLimit - DailyLimit, DailyLimit)
    /\ clock = Clock0
    /\ handlers = [h \in Handlers \cup Readers |-> Idle]
    /\ last = NoLast
    /\ races = NoRaces
    /\ latest = Contents(store)
    /\ login = NoLogin

\* alice is over the daily limit, and either far from the total limit or
\* over it too
InitOrder ==
    /\ store \in {Populated(0, DailyLimit + 1),
                  Populated(TotalLimit - DailyLimit, DailyLimit + 1)}
    /\ clock = Clock0
    /\ handlers = [h \in Handlers \cup Readers |-> Idle]
    /\ last = NoLast
    /\ races = NoRaces
    /\ latest = Contents(store)
    /\ login = NoLogin

\* nothing shared yet, no login under way
InitLogin ==
    /\ store = EmptyBucket
    /\ clock = Clock0
    /\ handlers = [h \in Handlers \cup Readers |-> Idle]
    /\ last = NoLast
    /\ races = NoRaces
    /\ latest = Contents(store)
    /\ login = NoLogin

----------------------------------------------------------------------------
(* Actions *)

\* a put or delete of the key is under way: called and not yet returned
Writing(key) ==
    \E h \in Handlers :
        /\ handlers[h].pc \in {"putting", "deleting"}
        /\ Key(handlers[h].req.path) = key
\* the instances hs, the Reads of the key that are in flight marked as
\* overlapping a put or delete of it
Overlapping(hs, key) ==
    [g \in DOMAIN hs |->
        IF hs[g].pc = "getting" /\ Key(hs[g].req.path) = key
        THEN [hs[g] EXCEPT !.overlapped = TRUE]
        ELSE hs[g]]

\* onRequestPut, lines 13-39: the cookie, content type and key checks and the
\* call of verifyToken, which judges the token at the time it is called
PutStart(h, req) ==
    /\ last = NoLast
    /\ handlers[h].pc = "idle"
    \* the instances are interchangeable: a request takes h1 when it is free
    /\ h = "h2" => handlers["h1"].pc # "idle"
    /\ req.op = "PUT"
    /\ LET out == PutChecks(req)
       IN  IF Passed(out)
           THEN /\ handlers' = [handlers EXCEPT ![h] =
                        [Idle EXCEPT !.pc = "verifying", !.req = req,
                                     !.calls = <<"verify">>,
                                     !.payload = VerifyToken(req.accessToken,
                                                             JWT_SECRET, clock)]]
                /\ last' = last
           ELSE /\ last' = Answer(req, out.resp, out.calls, out.payload, {},
                                  NoSeen, FALSE)
                /\ handlers' = handlers
    /\ UNCHANGED <<store, clock, races, latest, login>>

\* onRequestPut, lines 39-58: verifyToken returns (or throws), the checks of
\* the payload, `now = new Date()` and the call of list()
PutVerified(h) ==
    /\ last = NoLast
    /\ handlers[h].pc = "verifying"
    /\ handlers[h].req.op = "PUT"
    /\ LET hd == handlers[h]
           out == PutTokenChecks(hd.req, hd.payload)
       IN  IF Passed(out)
           THEN /\ handlers' = [handlers EXCEPT ![h] =
                        [hd EXCEPT !.pc = "listing", !.now = clock]]
                /\ last' = last
           ELSE /\ last' = Answer(hd.req, out.resp, out.calls, out.payload, {},
                                  NoSeen, FALSE)
                /\ handlers' = [handlers EXCEPT ![h] = Idle]
    /\ UNCHANGED <<store, clock, races, latest, login>>

\* the quota checks left out when the key is already in the bucket
PutList_OverwriteExempt(h, fails) ==
    /\ last = NoLast
    /\ handlers[h].pc = "listing"
    /\ LET hd == handlers[h]
           objects == List(store, hd.req.path[1])
           seen == [total |-> Cardinality(objects),
                    recent |-> Cardinality(RecentShares(objects, hd.now))]
           calls == Append(hd.calls, "list")
           out == IF fails
                  THEN Outcome(errorResponse(400, StorageError, <<>>), calls, hd.payload)
                  ELSE IF BucketGet(store, Key(hd.req.path)) # {}
                  THEN Pass(calls, hd.payload)
                  ELSE QuotaChecks(seen.total, seen.recent, calls, hd.payload)
       IN  IF Passed(out)
           THEN /\ handlers' = Overlapping(
                        [handlers EXCEPT ![h] =
                            [hd EXCEPT !.pc = "putting", !.calls = calls,
                                       !.seen = seen, !.objects = Listed(objects)]],
                        Key(hd.req.path))
                /\ last' = last
           ELSE /\ last' = Answer(hd.req, out.resp, out.calls, hd.payload, {},
                                  IF fails THEN NoSeen ELSE seen, FALSE)
                /\ handlers' = [handlers EXCEPT ![h] = Idle]
    /\ UNCHANGED <<store, clock, races, latest, login>>

\* onRequestPut, lines 58-77: list() returns (or throws), the quota checks and
\* the call of put()
PutList(h, fails) ==
    /\ last = NoLast
    /\ handlers[h].pc = "listing"
    /\ LET hd == handlers[h]
           objects == List(store, hd.req.path[1])
           seen == [total |-> Cardinality(objects),
                    recent |-> Cardinality(RecentShares(objects, hd.now))]
           calls == Append(hd.calls, "list")
           out == IF fails
                  THEN Outcome(errorResponse(400, StorageError, <<>>), calls, hd.payload)
                  ELSE QuotaChecks(seen.total, seen.recent, calls, hd.payload)
       IN  IF Passed(out)
           THEN /\ handlers' = Overlapping(
                        [handlers EXCEPT ![h] =
                            [hd EXCEPT !.pc = "putting", !.calls = calls,
                                       !.seen = seen, !.objects = Listed(objects)]],
                        Key(hd.req.path))
                /\ last' = last
           ELSE /\ last' = Answer(hd.req, out.resp, out.calls, hd.payload, {},
                                  IF fails THEN NoSeen ELSE seen, FALSE)
                /\ handlers' = [handlers EXCEPT ![h] = Idle]
    /\ UNCHANGED <<store, clock, races, latest, login>>

\* a put that threw is tried again
PutWrite_Retry(h, fails) ==
    /\ last = NoLast
    /\ handlers[h].pc = "putting"
    /\ LET hd == handlers[h]
           calls == Append(hd.calls, "put")
           owner == hd.req.path[1]
           \* what list() would return now is not what it returned
           stale == Listed(List(store, owner)) # hd.objects
           new == BucketPut(store, Key(hd.req.path), hd.req.body, clock)
       IN  IF fails
           THEN /\ handlers' = [handlers EXCEPT ![h] = [hd EXCEPT !.calls = calls]]
                /\ UNCHANGED <<store, races, last>>
           ELSE /\ store' = new
                /\ last' = Answer(hd.req,
                                  SuccessResponse("Chat shared successfully", hd.req),
                                  calls, hd.payload, Diff(store, new), hd.seen, stale)
                /\ handlers' = [handlers EXCEPT ![h] = Idle]
                /\ races' = IF stale THEN [races EXCEPT ![owner] = @ + 1] ELSE races
    /\ UNCHANGED <<clock, latest, login>>

\* onRequestPut, lines 74-96: put() takes effect (or throws) and the response
PutWrite(h, fails) ==
    /\ last = NoLast
    /\ handlers[h].pc = "putting"
    /\ LET hd == handlers[h]
           calls == Append(hd.calls, "put")
           owner == hd.req.path[1]
           \* what list() would return now is not what it returned
           stale == Listed(List(store, owner)) # hd.objects
           new == BucketPut(store, Key(hd.req.path), hd.req.body, clock)
       IN  IF fails
           THEN /\ last' = Answer(hd.req,
                                  errorResponse(500, "Unable to share chat: ",
                                                <<StorageError>>),
                                  calls, hd.payload, {}, hd.seen, stale)
                /\ handlers' = [handlers EXCEPT ![h] = Idle]
                /\ UNCHANGED <<store, races>>
           ELSE /\ store' = new
                /\ last' = Answer(hd.req,
                                  SuccessResponse("Chat shared successfully", hd.req),
                                  calls, hd.payload, Diff(store, new), hd.seen, stale)
                /\ handlers' = [handlers EXCEPT ![h] = Idle]
                /\ races' = IF stale THEN [races EXCEPT ![owner] = @ + 1] ELSE races
    /\ UNCHANGED <<clock, latest, login>>

\* onRequestGet, lines 101-112: the key's shape and the call of get()
GetStart(r, req) ==
    /\ last = NoLast
    /\ handlers[r].pc = "idle"
    /\ req.op = "GET"
    /\ IF ValidKeyShape(req.path)
       THEN /\ handlers' = [handlers EXCEPT ![r] =
                    [Idle EXCEPT !.pc = "getting", !.req = req,
                                 !.overlapped = Writing(Key(req.path))]]
            /\ last' = last
       ELSE /\ LET out == GetResponse(req, store, FALSE)
               IN  last' = Answer(req, out.resp, out.calls, out.payload, {},
                                  NoSeen, FALSE)
            /\ handlers' = handlers
    /\ UNCHANGED <<store, clock, races, latest, login>>

\* onRequestGet, lines 112-128: get() returns what the bucket holds then (or
\* throws) and the response
GetReturn(r, fails) ==
    /\ last = NoLast
    /\ handlers[r].pc = "getting"
    /\ LET hd == handlers[r]
           out == GetResponse(hd.req, store, fails)
       IN  last' = Answer(hd.req, out.resp, out.calls, out.payload, {}, NoSeen,
                          hd.overlapped)
    /\ handlers' = [handlers EXCEPT ![r] = Idle]
    /\ UNCHANGED <<store, clock, races, latest, login>>

\* onRequestDelete, lines 133-153: the cookie and key checks and the call of
\* verifyToken, which judges the token at the time it is called
DeleteStart(h, req) ==
    /\ last = NoLast
    /\ handlers[h].pc = "idle"
    /\ h = "h2" => handlers["h1"].pc # "idle"
    /\ req.op = "DELETE"
    /\ LET out == DeleteChecks(req)
       IN  IF Passed(out)
           THEN /\ handlers' = [handlers EXCEPT ![h] =
                        [Idle EXCEPT !.pc = "verifying", !.req = req,
                                     !.calls = <<"verify">>,
                                     !.payload = VerifyToken(req.accessToken,
                                                             JWT_SECRET, clock)]]
                /\ last' = last
           ELSE /\ last' = Answer(req, out.resp, out.calls, out.payload, {},
                                  NoSeen, FALSE)
                /\ handlers' = handlers
    /\ UNCHANGED <<store, clock, races, latest, login>>

\* onRequestDelete, lines 153-169: verifyToken returns (or throws), the checks
\* of the payload and the call of delete()
DeleteVerified(h) ==
    /\ last = NoLast
    /\ handlers[h].pc = "verifying"
    /\ handlers[h].req.op = "DELETE"
    /\ LET hd == handlers[h]
           out == DeleteTokenChecks(hd.req, hd.payload)
       IN  IF Passed(out)
           THEN /\ handlers' = Overlapping(
                        [handlers EXCEPT ![h] = [hd EXCEPT !.pc = "deleting"]],
                        Key(hd.req.path))
                /\ last' = last
           ELSE /\ last' = Answer(hd.req, out.resp, out.calls, out.payload, {},
                                  NoSeen, FALSE)
                /\ handlers' = [handlers EXCEPT ![h] = Idle]
    /\ UNCHANGED <<store, clock, races, latest, login>>

\* onRequestDelete, lines 169-188: delete() takes effect (or throws) and the
\* response
DeleteWrite(h, fails) ==
    /\ last = NoLast
    /\ handlers[h].pc = "deleting"
    /\ LET hd == handlers[h]
           calls == Append(hd.calls, "delete")
           new == BucketDelete(store, Key(hd.req.path))
       IN  IF fails
           THEN /\ last' = Answer(hd.req,
                                  errorResponse(500, "Unable to share chat: ",
                                                <<StorageError>>),
                                  calls, hd.payload, {}, NoSeen, FALSE)
                /\ handlers' = [handlers EXCEPT ![h] = Idle]
                /\ store' = store
           ELSE /\ store' = new
                /\ last' = Answer(hd.req,
                                  SuccessResponse("Chat deleted successfully", hd.req),
                                  calls, hd.payload, Diff(store, new), NoSeen, FALSE)
                /\ handlers' = [handlers EXCEPT ![h] = Idle]
    /\ UNCHANGED <<clock, races, latest, login>>

\* time passes, a millisecond at a time: an object uploaded at time 1 is
\* within the 24-hour window at Clock0 and outside it one tick later
Tick ==
    /\ last = NoLast
    /\ clock < Clock0 + MaxTicks
    /\ clock' = clock + 1
    /\ UNCHANGED <<store, handlers, last, races, latest, login>>

\* the client receives the response, and what the clients were told is
\* brought up to date.  A response is observed before the next step is taken,
\* so that `last` always shows the one response just returned; this orders
\* the observations only, every interleaving of the bucket calls remains.
Deliver ==
    /\ last # NoLast
    /\ last' = NoLast
    /\ latest' = Observed(latest, last)
    /\ UNCHANGED <<store, clock, handlers, races, login>>

\* the gateway's part of the state, which the login endpoint never touches
gateway == <<store, handlers, last, races, latest>>

\* onRequestGet of the login function and handleLogin, lines 26-39: without a
\* code the redirect to the provider, with one the call of requestAccessToken
Begin(req, echoed, origin) ==
    LET chatId == ChatId(req)
    IN  IF Falsy(req.code)
        THEN [NoLogin EXCEPT !.pc = "done", !.req = req, !.chatId = chatId,
                             !.echoed = echoed, !.origin = origin,
                             !.started = clock,
                             !.resp = Redirect(AuthorizeUrl(chatId))]
        ELSE [NoLogin EXCEPT !.pc = "exchanging", !.req = req, !.chatId = chatId,
                             !.echoed = echoed, !.origin = origin,
                             !.started = clock]

\* the catch block of handleLogin, lines 57-60
Caught(calls) ==
    [login EXCEPT !.pc = "done", !.calls = calls, !.failed = TRUE,
                  !.resp = LoginFailed(login.idToken)]

\* a login request arrives
LoginStart(req) ==
    /\ login.pc = "idle"
    /\ login' = [Begin(req, FALSE, None) EXCEPT !.pending = login.pending]
    /\ UNCHANGED <<gateway, clock>>

\* the provider, having authorized the user, sends the browser back to the
\* login endpoint with a code and the state it was given
ProviderCallback(code) ==
    /\ login.pc = "idle"
    /\ login.pending.waiting
    /\ login' = Begin(LoginRequest(Some(code), None, login.pending.state), TRUE,
                      login.pending.chat)
    /\ UNCHANGED <<gateway, clock>>

\* handleLogin, line 39: requestAccessToken returns or throws
LoginExchange(fails) ==
    /\ login.pc = "exchanging"
    /\ LET calls == Append(login.calls, "requestAccessToken")
           ghAccessToken == requestAccessToken(login.req.code[1])
       IN  login' = IF fails \/ ghAccessToken = None
                    THEN Caught(calls)
                    ELSE [login EXCEPT !.pc = "profiling", !.calls = calls,
                                       !.ghAccessToken = ghAccessToken]
    /\ UNCHANGED <<gateway, clock>>

\* handleLogin, line 40: requestUserInfo returns or throws
LoginProfile(fails) ==
    /\ login.pc = "profiling"
    /\ LET calls == Append(login.calls, "requestUserInfo")
           user == requestUserInfo(login.ghAccessToken[1])
       IN  login' = IF fails \/ user = {}
                    THEN Caught(calls)
                    ELSE [login EXCEPT !.pc = "mintingId", !.calls = calls,
                                       !.user = user]
    /\ UNCHANGED <<gateway, clock>>

\* handleLogin, line 42: the identity token is created, or createToken throws
LoginMintId(fails) ==
    /\ login.pc = "mintingId"
    /\ LET calls == Append(login.calls, "createToken")
       IN  login' = IF fails
                    THEN Caught(calls)
                    ELSE [login EXCEPT !.pc = "mintingAccess", !.calls = calls,
                                       !.idToken = MintIdToken(login.user, clock)]
    /\ UNCHANGED <<gateway, clock>>

\* handleLogin, lines 44-56: the access token is created and the response
\* built, or createToken throws
LoginMintAccess(fails) ==
    /\ login.pc = "mintingAccess"
    /\ LET calls == Append(login.calls, "createToken")
       IN  login' = IF fails
                    THEN Caught(calls)
                    ELSE [login EXCEPT !.pc = "done", !.calls = calls,
                                       !.resp = LoginCompleted(login.chatId,
                                                    MintAccessToken(login.user, clock),
                                                    login.idToken)]
    /\ UNCHANGED <<gateway, clock>>

\* the browser receives the response; sent to the provider, it will come back
LoginDeliver ==
    /\ login.pc = "done"
    /\ login' = [NoLogin EXCEPT !.pending =
                    IF login.resp.location.origin = GitHub
                    THEN Pending(QueryGet(login.resp.location, "state"),
                                 login.req.chat_id)
                    ELSE login.pending]
    /\ UNCHANGED <<gateway, clock>>

----------------------------------------------------------------------------
(* Requests *)

AccessCookies ==
    {NoToken, AliceApi, BobApi, AliceUser, BobNoRole, AliceExpired, AliceExpiring, Garbage}
IdCookies == {NoToken, IdFor("alice")}
ContentTypes == {NoContentType, Json, Text}
Paths == {<<"alice">>, <<"alice", 1>>, <<"bob", 1>>, <<"alice", 1, 1>>}
Bodies == {"b1", "b2"}

PutRequests ==
    {MkRequest("PUT", p, a, i, ct, b) :
        p \in Paths, a \in AccessCookies, i \in IdCookies, ct \in ContentTypes, b \in Bodies}
DeleteRequests ==
    {MkRequest("DELETE", p, a, i, NoContentType, "") :
        p \in Paths, a \in AccessCookies, i \in IdCookies}
\* Read is sent without cookies, with cookies that are no tokens, or with bob's
GetCookies == {<<NoToken, NoToken>>, <<Garbage, Garbage>>, <<BobApi, IdFor("bob")>>}
GetRequests ==
    {MkRequest("GET", p, c[1], c[2], NoContentType, "") : p \in Paths, c \in GetCookies}

\* the requests of an owner who shares and deletes with valid cookies
QuotaPuts ==
    {MkRequest("PUT", <<"alice", n>>, AliceApi, IdFor("alice"), Json, "b1") : n \in 1..2}
QuotaDeletes ==
    {MkRequest("DELETE", <<"alice", 101>>, AliceApi, IdFor("alice"), NoContentType, "")}
\* requests that alice sends for one key, and Reads of it and of a key that
\* is never written
ReadPuts ==
    {MkRequest("PUT", <<"alice", 1>>, AliceApi, IdFor("alice"), Json, b) : b \in Bodies}
ReadDeletes ==
    {MkRequest("DELETE", <<"alice", 1>>, AliceApi, IdFor("alice"), NoContentType, "")}
ReadGets ==
    {MkRequest("GET", <<"alice", n>>, NoToken, NoToken, NoContentType, "") : n \in 1..2}

\* no request is in flight
Alone == \A h \in DOMAIN handlers : handlers[h].pc = "idle"
\* requests handled one at a time: a request arrives when none is in flight,
\* the clock advancing at any point; any request, the bucket failing at will
Next ==
    \/ \E req \in PutRequests : Alone /\ PutStart("h1", req)
    \/ PutVerified("h1")
    \/ \E fails \in BOOLEAN : PutList("h1", fails)
    \/ \E fails \in BOOLEAN : PutWrite("h1", fails)
    \/ \E req \in GetRequests : Alone /\ GetStart("r1", req)
    \/ \E fails \in BOOLEAN : GetReturn("r1", fails)
    \/ \E req \in DeleteRequests : Alone /\ DeleteStart("h1", req)
    \/ DeleteVerified("h1")
    \/ \E fails \in BOOLEAN : DeleteWrite("h1", fails)
    \/ Tick
    \/ Deliver

\* two handler instances, so that Creates and Deletes run side by side; the
\* bucket answering every call
NextQuota ==
    \/ \E h \in Handlers, req \in QuotaPuts : PutStart(h, req)
    \/ \E h \in Handlers : PutVerified(h)
    \/ \E h \in Handlers : PutList(h, FALSE)
    \/ \E h \in Handlers : PutWrite(h, FALSE)
    \/ \E h \in Handlers, req \in QuotaDeletes : DeleteStart(h, req)
    \/ \E h \in Handlers : DeleteVerified(h)
    \/ \E h \in Handlers : DeleteWrite(h, FALSE)
    \/ Tick
    \/ Deliver

\* Reads beside Creates and Deletes: one instance that writes and one that
\* reads, a request arriving at any point, get() failing at will
NextRead ==
    \/ \E req \in ReadPuts : PutStart("h1", req)
    \/ PutVerified("h1")
    \/ PutList("h1", FALSE)
    \/ PutWrite("h1", FALSE)
    \/ \E req \in ReadGets : GetStart("r1", req)
    \/ \E fails \in BOOLEAN : GetReturn("r1", fails)
    \/ \E req \in ReadDeletes : DeleteStart("h1", req)
    \/ DeleteVerified("h1")
    \/ DeleteWrite("h1", FALSE)
    \/ Tick
    \/ Deliver

\* the requests of the login endpoint: no code, an empty one, codes the
\* provider accepts and one it refuses; no chat id, an empty one, chat ids:
\* plain ones, ones with characters that mean something in a URL, and one
\* with a percent escape
Codes == {"code-alice", "code-bob", "code-refused"}
ChatIds == {"c1", "%41", "..", "a/b", "a?b=c", "a#b"}
LoginRequests ==
    {LoginRequest(code, chat_id, state) :
        code \in {None, Some("")} \cup {Some(c) : c \in Codes},
        chat_id \in {None, Some("")} \cup {Some(c) : c \in ChatIds},
        state \in {None, Some("")} \cup {Some(c) : c \in ChatIds}}

\* a step of the login request in flight: a call returns or throws
LoginStep ==
    \/ \E fails \in BOOLEAN : LoginExchange(fails)
    \/ \E fails \in BOOLEAN : LoginProfile(fails)
    \/ \E fails \in BOOLEAN : LoginMintId(fails)
    \/ \E fails \in BOOLEAN : LoginMintAccess(fails)

\* the login endpoint, the provider and the clock
NextLogin ==
    \/ \E req \in LoginRequests : LoginStart(req)
    \/ \E code \in Codes : ProviderCallback(code)
    \/ LoginStep
    \/ LoginDeliver
    \/ Tick

\* a session: the browser logs in and then calls the gateway with the cookies
\* of the login response it holds.  The requests of a session come one after
\* the other: a login is begun, continued or dropped only while no gateway
\* request is under way, and a gateway request is sent only while no login is.
Quiescent == last = NoLast /\ \A h \in DOMAIN handlers : handlers[h].pc = "idle"
LoggedInOrOut == login.pc \in {"idle", "done"}
\* the cookies the browser holds: those the login response set, or none
Jar ==
    IF login.pc = "done" /\ Len(login.resp.cookies) = 2
    THEN [accessToken |-> login.resp.cookies[1].value,
          idToken |-> login.resp.cookies[2].value]
    ELSE [accessToken |-> NoToken, idToken |-> NoToken]
\* id_token cookies that no login of this deployment issued as they are: signed
\* with another secret, expired, or no token at all
ForgedId == MkToken("jwt", "alice", Profile("alice"), FarFuture, "another-secret")
ExpiredId == MkToken("jwt", "alice", Profile("alice"), 0, JWT_SECRET)
\* the id_token cookie sent: the one held, another user's, a tampered one, none
SessionIds == {Jar.idToken, IdFor("bob"), ForgedId, ExpiredId, Garbage, NoToken}
SessionPaths == {<<"alice", 1>>, <<"bob", 1>>}
SessionLogins == {LoginRequest(code, None, None) : code \in {None} \cup {Some(c) : c \in Codes}}
SessionPuts ==
    {MkRequest("PUT", p, Jar.accessToken, i, Json, "b1") : p \in SessionPaths, i \in SessionIds}
SessionDeletes ==
    {MkRequest("DELETE", p, Jar.accessToken, i, NoContentType, "") :
        p \in SessionPaths, i \in SessionIds}
SessionGets ==
    {MkRequest("GET", p, Jar.accessToken, Jar.idToken, NoContentType, "") : p \in SessionPaths}

SessionLoginStart(req) == Quiescent /\ LoginStart(req)
SessionLoginStep == Quiescent /\ LoginStep
\* the browser drops the cookies it holds
SessionLogout == Quiescent /\ LoginDeliver
SessionPut(req) == LoggedInOrOut /\ PutStart("h1", req)
SessionGet(req) == LoggedInOrOut /\ GetStart("r1", req)
SessionDelete(req) == LoggedInOrOut /\ DeleteStart("h1", req)

\* login and gateway in one session, any call failing at will
NextSession ==
    \/ \E req \in SessionLogins : SessionLoginStart(req)
    \/ SessionLoginStep
    \/ SessionLogout
    \/ \E req \in SessionPuts : SessionPut(req)
    \/ PutVerified("h1")
    \/ \E fails \in BOOLEAN : PutList("h1", fails)
    \/ \E fails \in BOOLEAN : PutWrite("h1", fails)
    \/ \E req \in SessionGets : SessionGet(req)
    \/ \E fails \in BOOLEAN : GetReturn("r1", fails)
    \/ \E req \in SessionDeletes : SessionDelete(req)
    \/ DeleteVerified("h1")
    \/ \E fails \in BOOLEAN : DeleteWrite("h1", fails)
    \/ Tick
    \/ Deliver

Spec == Init /\ [][Next]_vars
SpecQuota == InitQuota /\ [][NextQuota]_vars
SpecTotal == InitTotal /\ [][NextQuota]_vars
SpecOrder == InitOrder /\ [][Next]_vars
SpecRead == Init /\ [][NextRead]_vars
SpecSession == InitLogin /\ [][NextSession]_vars
SpecLogin == InitLogin /\ [][NextLogin]_vars
\* every call the login endpoint awaits returns or throws in the end
SpecLoginLive == InitLogin /\ [][NextLogin]_vars /\ WF_vars(LoginStep)

----------------------------------------------------------------------------
(* Properties.  They speak about `last`: every response passes through it,  *)
(* with the request it answers, the payload the handler verified, the calls *)
(* it made downstream and the keys of the bucket it changed.                *)

Called(call) == \E i \in 1..Len(last.calls) : last.calls[i] = call
Mutating == last.req.op \in {"PUT", "DELETE"}
Untouched == last.mutated = {} /\ ~Called("put") /\ ~Called("delete")
\* the objects under an owner's prefix, and those of them uploaded less than
\* a day before the present
Held(owner) == {o \in store : o.key[1] = owner}
HeldRecent(owner) == {o \in Held(owner) : clock - o.uploaded < oneDayMS}
Keys == {o.key : o \in store}

\* C1: a key (owner, id) is written or deleted only by a Create or Delete whose
\* access token verified with subject owner; the token is then one issued for
\* owner, so a token for alice never changes a key of bob.
C1_Ownership ==
    \A k \in last.mutated :
        /\ Mutating
        /\ k = Key(last.req.path)
        /\ last.payload.outcome = "payload"
        /\ last.payload.sub = k[1]
        /\ last.req.accessToken.sub = k[1]
C1_Witness ==
    /\ last.req.op = "DELETE"
    /\ last.mutated = {<<"alice", 1>>}
    /\ last.req.accessToken = AliceApi

\* C2 as stated: whenever verification of the access token returns no payload
\* or raises, Create and Delete answer 403 and leave the bucket alone.
C2_Original ==
    (Mutating /\ last.payload.outcome \in {"null", "throw"})
        => (last.resp.status = 403 /\ Untouched)
\* C3 as stated: a Create whose listing shows exactly 500 objects answers 403
\* (total share limit) and puts nothing (the store failing aside).
C3_Original ==
    (last.req.op = "PUT" /\ Called("list") /\ last.seen.total = TotalLimit
        /\ last.resp.status # 500)
        => (last.resp = errorResponse(403, "Exceeded total share limit", <<>>)
            /\ Untouched)

\* C4 as stated: a Create whose listing shows fewer than 500 objects, exactly
\* 10 of them uploaded in the last 24 hours, answers 429 and puts nothing
\* (the store failing aside).
C4_Original ==
    (last.req.op = "PUT" /\ Called("list") /\ last.seen.total < TotalLimit
        /\ last.seen.recent = DailyLimit /\ last.resp.status # 500)
        => (last.resp.status = 429 /\ Untouched)

\* C5 as stated: as long as no Create has put after a listing gone stale, no
\* owner holds more than 500 objects or more than 10 uploaded in the last 24
\* hours.
C5_Original ==
    ~raced =>
        \A owner \in Owners :
            /\ Cardinality(Held(owner)) <= TotalLimit
            /\ Cardinality(HeldRecent(owner)) <= DailyLimit

\* C6: two Creates of an owner on distinct ids that both list before either
\* puts both see counts within the limits and both succeed, and leave the
\* owner with more objects, in total and in the last 24 hours, than Creates
\* handled one at a time can (one more than each limit); and only so: what
\* an owner holds beyond that is at most one object for every Create of the
\* owner that put after its listing had changed.
C6_OnlyByRace ==
    \A owner \in Owners :
        /\ Cardinality(HeldRecent(owner)) <= DailyLimit + 1 + races[owner]
        /\ Cardinality(Held(owner)) <= TotalLimit + 1 + races[owner]
C6_Witness ==
    /\ last.req.op = "PUT"
    /\ last.resp.status = 200
    /\ last.stale
    /\ races["alice"] = 1
    /\ last.seen.total = TotalLimit
    /\ last.seen.recent = DailyLimit
    /\ Cardinality(HeldRecent("alice")) = DailyLimit + 2
    /\ Cardinality(Held("alice")) = TotalLimit + 2
    /\ {<<"alice", 1>>, <<"alice", 2>>} \subseteq Keys

\* C7: with a verified token whose subject is the owner but whose role claim
\* is not "api", Create and Delete answer 403 and do nothing; a put or a
\* delete is issued only for a verified role "api".
C7_RoleCheck ==
    /\ (/\ Mutating
        /\ last.payload.outcome = "payload"
        /\ Len(last.req.path) = 2
        /\ last.payload.sub = last.req.path[1]
        /\ Role(last.payload) # <<"api">>)
          => (/\ last.resp = errorResponse(403, "Access Token missing 'api' role", <<>>)
              /\ Untouched
              /\ ~Called("list"))
    /\ (Called("put") \/ Called("delete") \/ last.mutated # {})
          => (last.payload.outcome = "payload" /\ Role(last.payload) = <<"api">>)
C7_Witness ==
    /\ last.req.op = "DELETE"
    /\ last.req.path = <<"bob", 1>>
    /\ last.req.accessToken = BobNoRole
    /\ last.resp.status = 403
    /\ <<"bob", 1>> \in Keys

\* C8: a Create or Delete without access_token cookie answers 403 "Missing
\* Access Token", one with it but without id_token cookie 403 "Missing ID
\* Token"; neither verifies a token, lists, puts or deletes.
C8_MissingCookies ==
    /\ (Mutating /\ Missing(last.req.accessToken))
          => (/\ last.resp = errorResponse(403, "Missing Access Token", <<>>)
              /\ last.calls = <<>> /\ last.mutated = {}
              /\ last.payload = NoPayload)
    /\ (Mutating /\ ~Missing(last.req.accessToken) /\ Missing(last.req.idToken))
          => (/\ last.resp = errorResponse(403, "Missing ID Token", <<>>)
              /\ last.calls = <<>> /\ last.mutated = {}
              /\ last.payload = NoPayload)
C8_Witness ==
    /\ last.req.op = "PUT"
    /\ last.req.accessToken = AliceApi
    /\ Missing(last.req.idToken)
    /\ last.req.contentType = Json
    /\ last.req.path = <<"alice", 1>>
    /\ last.resp.message = "Missing ID Token"

\* C9 as stated: a Create, Read or Delete whose path is not two segments
\* answers 400, whatever its cookies and headers.
C9_Original ==
    (last.req.op \in {"PUT", "GET", "DELETE"} /\ Len(last.req.path) # 2)
        => last.resp.status = 400
\* C9 amended: such a request fails without any downstream call: a Read with
\* 400; a Create or Delete with 400 when both cookies are present, and with
\* 403 (missing token) when one is missing.
C9_KeyShape ==
    (last.req.op \in {"PUT", "GET", "DELETE"} /\ Len(last.req.path) # 2)
        => /\ last.calls = <<>> /\ last.mutated = {}
           /\ last.req.op = "GET" => last.resp = ShapeError
           /\ (Mutating /\ ~Missing(last.req.accessToken) /\ ~Missing(last.req.idToken))
                 => last.resp.status = 400
           /\ (last.req.op = "DELETE" /\ ~Missing(last.req.accessToken)
                  /\ ~Missing(last.req.idToken))
                 => last.resp = ShapeError
           /\ (Mutating /\ Missing(last.req.accessToken))
                 => last.resp = errorResponse(403, "Missing Access Token", <<>>)
           /\ (Mutating /\ ~Missing(last.req.accessToken) /\ Missing(last.req.idToken))
                 => last.resp = errorResponse(403, "Missing ID Token", <<>>)
C9_Witness ==
    /\ last.req.op = "DELETE"
    /\ last.req.path = <<"alice", 1, 1>>
    /\ last.req.accessToken = AliceApi
    /\ ~Missing(last.req.idToken)
    /\ last.resp = ShapeError

\* C10: a response sets cookies only if it is the 200 of a Create or Delete
\* whose access token verified with the owner as subject and role "api"; no
\* error response and no Read response sets a cookie.
C10_CookiesOnlyOnSuccess ==
    /\ last.resp.cookies # <<>>
          => (/\ Mutating
              /\ last.resp.status = 200
              /\ last.payload.outcome = "payload"
              /\ last.payload.sub = last.req.path[1]
              /\ Role(last.payload) = <<"api">>)
    /\ last.resp.status \in {400, 403, 404, 429, 500} => last.resp.cookies = <<>>
    /\ last.req.op = "GET" => last.resp.cookies = <<>>
C10_Witness ==
    /\ last.req.op = "PUT"
    /\ last.resp.status = 200
    /\ Len(last.resp.cookies) = 2
    /\ last.resp.cookies[1].name = "access_token"
    /\ last.resp.cookies[2].name = "id_token"

\* a call of the bucket threw: the response carries the error's message
StorageFailed == last.resp.message = StorageError \/ last.resp.detail = <<StorageError>>

\* C11 as stated: when a call of the bucket made by a Create throws, be it
\* the listing or the put, the response is 500 and sets no cookie.
C11_Original ==
    (last.req.op = "PUT" /\ StorageFailed)
        => (last.resp.status = 500 /\ last.resp.cookies = <<>>)

\* C12 as stated: when verification of the access token raises, Delete
\* answers 400 with the error's message and Create answers 403; neither
\* changes the bucket.
C12_Original ==
    /\ (last.req.op = "DELETE" /\ last.payload.outcome = "throw")
          => (last.resp = errorResponse(400, VerifyError, <<>>) /\ last.mutated = {})
    /\ (last.req.op = "PUT" /\ last.payload.outcome = "throw")
          => (last.resp.status = 403 /\ last.mutated = {})
C14_ReadPublic ==
    last.req.op = "GET"
        => /\ last.payload = NoPayload
           /\ ~Called("verify")
           /\ \A access \in AccessCookies, id \in IdCookies \cup {Garbage} :
                  LET other == [last.req EXCEPT !.accessToken = access, !.idToken = id]
                      resp == GetResponse(other, store, last.resp.status = 500).resp
                  IN  resp.status = last.resp.status /\ resp.body = last.resp.body
C14_Witness ==
    /\ last.req.op = "GET"
    /\ last.req.path = <<"alice", 1>>
    /\ last.req.accessToken = BobApi
    /\ last.resp.status = 200
    /\ last.resp.body = "b1"

\* C20: Create and Delete answer with the error of the first check that
\* fails, in the order access cookie, id cookie, content type (Create only),
\* key shape, verification, subject, role, and for Create total quota, then
\* 24-hour quota; nothing is called after the failing check, so a token is
\* verified only once the request is well formed, the bucket is called only
\* once the token checks passed, and a Create over both quotas gets 403, not
\* 429 (a call of the bucket that throws aside).
C20_CheckOrder ==
    (Mutating /\ ~StorageFailed) =>
        LET req == last.req
            put == req.op = "PUT"
            cookies == ~Missing(req.accessToken) /\ ~Missing(req.idToken)
            json == put => /\ req.contentType.present
                           /\ \E i \in 1..Len(req.contentType.parts) :
                                  req.contentType.parts[i] = "application/json"
            wellFormed == cookies /\ json /\ Len(req.path) = 2
            verified == wellFormed /\ last.payload.outcome = "payload"
            subject == verified /\ last.payload.sub = req.path[1]
            authorized == subject /\ Role(last.payload) = <<"api">>
            overTotal == last.seen.total > TotalLimit
            overDaily == last.seen.recent > DailyLimit
        IN  /\ Missing(req.accessToken)
                  => /\ last.resp = errorResponse(403, "Missing Access Token", <<>>)
                     /\ last.calls = <<>>
            /\ (~Missing(req.accessToken) /\ Missing(req.idToken))
                  => /\ last.resp = errorResponse(403, "Missing ID Token", <<>>)
                     /\ last.calls = <<>>
            /\ (cookies /\ ~json)
                  => /\ last.resp = errorResponse(400, "Expected JSON", <<>>)
                     /\ last.calls = <<>>
            /\ (cookies /\ json /\ Len(req.path) # 2)
                  => (last.resp = ShapeError /\ last.calls = <<>>)
            /\ ~wellFormed => last.payload = NoPayload
            /\ (wellFormed /\ ~verified)
                  => /\ last.payload.outcome \in {"null", "throw"}
                     /\ last.resp.status \in {400, 403}
                     /\ last.calls = <<"verify">>
            /\ (verified /\ ~subject)
                  => /\ last.resp = errorResponse(403,
                                       "Access Token does not match username", <<>>)
                     /\ last.calls = <<"verify">>
            /\ (subject /\ ~authorized)
                  => /\ last.resp = errorResponse(403,
                                       "Access Token missing 'api' role", <<>>)
                     /\ last.calls = <<"verify">>
            /\ (authorized /\ ~put) => last.calls = <<"verify", "delete">>
            /\ (authorized /\ put /\ overTotal)
                  => /\ last.resp = errorResponse(403, "Exceeded total share limit", <<>>)
                     /\ last.calls = <<"verify", "list">>
            /\ (authorized /\ put /\ ~overTotal /\ overDaily)
                  => /\ last.resp = errorResponse(429,
                                       "Too many shares in a 24-hour period", <<>>)
                     /\ last.calls = <<"verify", "list">>
            /\ (authorized /\ put /\ ~overTotal /\ ~overDaily)
                  => (last.calls = <<"verify", "list", "put">> /\ last.resp.status = 200)
            /\ last.resp.status # 200 => last.mutated = {}
C20_Witness ==
    /\ last.req.op = "PUT"
    /\ last.req.path = <<"alice", 1>>
    /\ last.seen.total > TotalLimit
    /\ last.seen.recent > DailyLimit
    /\ last.resp = errorResponse(403, "Exceeded total share limit", <<>>)
    /\ last.calls = <<"verify", "list">>

\* C21: the bucket changes only in the step in which a Create or a Delete
\* returns 200, and only at the request's key: after a Create the key holds
\* exactly one object, with the request's body, and the owner holds one
\* object more if the key was new and as many as before if it was
\* overwritten; after a Delete the key holds none; every object under another
\* key is as it was.  A step that returns a Read's response, or a 400, 403 or
\* 429 to a Create or Delete, leaves the bucket as it was.
C21_Frame ==
    [][LET r == last'
           k == Key(r.req.path)
           before == {o \in store : o.key = k}
           after == {o \in store' : o.key = k}
           others == {o \in store : o.key # k}
       IN  /\ store' # store
                 => /\ last = NoLast /\ r # NoLast
                    /\ r.req.op \in {"PUT", "DELETE"}
                    /\ r.resp.status = 200
           /\ (last = NoLast /\ r # NoLast /\ r.resp.status = 200
                  /\ r.req.op = "PUT")
                 => /\ Cardinality(after) = 1
                    /\ \A o \in after : o.body = r.req.body
                    /\ {o \in store' : o.key # k} = others
                    /\ Cardinality({o \in store' : o.key[1] = k[1]})
                          = Cardinality({o \in store : o.key[1] = k[1]})
                              + (IF before = {} THEN 1 ELSE 0)
           /\ (last = NoLast /\ r # NoLast /\ r.resp.status = 200
                  /\ r.req.op = "DELETE")
                 => /\ after = {}
                    /\ store' = others
           /\ (last = NoLast /\ r # NoLast
                  /\ (r.req.op = "GET" \/ r.resp.status \in {400, 403, 429}))
                 => store' = store
      ]_vars
C21_Witness ==
    /\ last.req.op = "PUT"
    /\ last.req.path = <<"alice", 1>>
    /\ last.resp.status = 200
    /\ ~last.stale
    /\ last.seen.total = DailyLimit + 1
    /\ Cardinality(Held("alice")) = DailyLimit + 1
    /\ last.mutated = {<<"alice", 1>>}

\* C24: the quota is what the bucket holds now.  A Delete never lists and is
\* never refused for a quota: with the owner's token it returns 200, however
\* many objects the owner holds, and the key is gone from the bucket.  A
\* Create is refused for a quota only on a listing that shows more than the
\* limit, and that listing is what the owner holds at that moment; on a
\* listing within the limits it is carried out.  So an owner who is refused
\* deletes an object and shares again: more successful Creates within 24
\* hours than the ceiling, one request at a time.
C24_DeleteFreesQuota ==
    /\ last.req.op = "DELETE"
          => /\ ~Called("list")
             /\ last.seen = NoSeen
             /\ last.resp.status \notin {429}
             /\ last.resp.message # "Exceeded total share limit"
             /\ (/\ last.payload.outcome = "payload"
                 /\ last.payload.sub = last.req.path[1]
                 /\ Role(last.payload) = <<"api">>
                 /\ ~StorageFailed)
                   => /\ last.resp.status = 200
                      /\ Key(last.req.path) \notin Keys
    /\ (last.req.op = "PUT" /\ Called("list") /\ ~StorageFailed)
          => LET owner == last.req.path[1]
                 refused == last.resp.status \in {403, 429}
             IN  /\ refused
                       => /\ last.seen.total = Cardinality(Held(owner))
                          /\ Cardinality(HeldRecent(owner)) <= last.seen.recent
                          /\ \/ last.seen.total > TotalLimit
                             \/ last.seen.recent > DailyLimit
                 /\ (last.seen.total <= TotalLimit /\ last.seen.recent <= DailyLimit)
                       => last.resp.status = 200
C24_Witness ==
    /\ ~raced
    /\ clock = Clock0
    /\ last.req.op = "PUT"
    /\ last.req.path = <<"alice", 2>>
    /\ last.resp.status = 200
    /\ ~last.stale
    /\ last.seen.recent = DailyLimit
    /\ <<"alice", 1>> \in Keys
    /\ <<"alice", 101>> \notin Keys
    /\ \A o \in Held("alice") : clock - o.uploaded < oneDayMS

\* C25: whether a Create is refused for a quota depends on the listing of the
\* owner alone, not on the key: on a listing over a limit also a Create on a
\* key that is in the bucket, which would add no object, is refused, with
\* 403 for the total and 429 for the 24 hours, and the object stays as it is.
C25_OverwriteChecked ==
    (last.req.op = "PUT" /\ Called("list") /\ ~StorageFailed)
        => LET k == Key(last.req.path)
               over == \/ last.seen.total > TotalLimit
                       \/ last.seen.recent > DailyLimit
           IN  /\ over <=> last.resp.status \in {403, 429}
               /\ ~over <=> last.resp.status = 200
               /\ last.seen.total > TotalLimit => last.resp.status = 403
               /\ over => /\ ~Called("put")
                           /\ last.mutated = {}
                           /\ \A r \in latest : r.key = k
                                  => \E o \in store : o.key = k /\ o.body = r.body
C25_Witness ==
    /\ last.req.op = "PUT"
    /\ last.req.path = <<"alice", 1>>
    /\ <<"alice", 1>> \in Keys
    /\ last.seen.total = TotalLimit
    /\ last.seen.recent = DailyLimit + 1
    /\ last.resp.status = 429
    /\ last.mutated = {}

----------------------------------------------------------------------------
(* Properties of the login endpoint.  They speak about `login`: the request *)
(* in flight or just answered, the calls made for it and its response.      *)

Answered == login.pc = "done"
\* a login request with a code, all of whose calls returned
Completed == Answered /\ ~Falsy(login.req.code) /\ ~login.failed

\* C15: a login with a code the provider accepts, no call failing, is
\* answered 302 with exactly two Set-Cookie headers, access_token then
\* id_token; both tokens are signed with JWT_SECRET for the username of the
\* code's user and expire one token lifetime after they were issued; the
\* access token carries the claim role "api" and nothing else, the identity
\* token the user's profile.
C15_LoginSuccess ==
    Completed =>
        LET subject == IF login.req.code = Some("code-alice") THEN "alice" ELSE "bob"
            cookies == login.resp.cookies
            access == cookies[1].value
            id == cookies[2].value
        IN  /\ login.req.code \in {Some("code-alice"), Some("code-bob")}
            /\ login.resp.status = 302
            /\ Len(cookies) = 2
            /\ cookies[1].name = "access_token" /\ cookies[2].name = "id_token"
            /\ access.kind = "jwt" /\ id.kind = "jwt"
            /\ access.sub = subject /\ id.sub = subject
            /\ access.secret = JWT_SECRET /\ id.secret = JWT_SECRET
            /\ access.claims = {<<"role", "api">>}
            /\ id.claims = {<<"username", subject>>}
            /\ login.started + TokenLifetime <= id.exp
            /\ id.exp <= access.exp
            /\ access.exp <= clock + TokenLifetime
C15_Witness ==
    /\ Completed
    /\ login.req.code = Some("code-bob")
    /\ Len(login.resp.cookies) = 2
    /\ login.resp.cookies[1].value.sub = "bob"
    /\ login.resp.cookies[2].value.exp < login.resp.cookies[1].value.exp

\* C16: when the code exchange, the profile fetch or the creation of either
\* token fails, the response is a 302 redirect to the error-flagged root URL
\* without any Set-Cookie header; and no response at all sets one cookie
\* without the other.
C16_LoginFailure ==
    /\ login.failed
          => /\ Answered
             /\ login.resp.status = 302
             /\ login.resp.location = Url(ChatCraft, <<>>, <<<<"github_login_error", "">>>>)
             /\ login.resp.cookies = <<>>
    /\ Answered => Len(login.resp.cookies) \in {0, 2}
C16_Witness ==
    /\ login.failed
    /\ login.idToken # NoToken
    /\ login.calls =
           <<"requestAccessToken", "requestUserInfo", "createToken", "createToken">>
    /\ login.resp.cookies = <<>>

\* C17: a login request without a code is answered 302 to the provider's
\* authorization endpoint with client_id, and with state equal to the chat id
\* exactly when the request has one (chat_id, or else state); no call of the
\* provider is made, no token created and no cookie set.
C17_NoCode ==
    (Answered /\ Falsy(login.req.code))
        => LET chat == IF ~Falsy(login.req.chat_id) THEN login.req.chat_id
                       ELSE IF ~Falsy(login.req.state) THEN login.req.state
                       ELSE None
               url == login.resp.location
           IN  /\ login.resp.status = 302
               /\ url.origin = GitHub
               /\ url.path = <<"login", "oauth", "authorize">>
               /\ QueryGet(url, "client_id") = Some(CLIENT_ID)
               /\ QueryGet(url, "state") = chat
               /\ Len(url.query) = IF chat = None THEN 1 ELSE 2
               /\ login.calls = <<>>
               /\ login.idToken = NoToken
               /\ login.resp.cookies = <<>>
               /\ ~login.failed
C17_Witness ==
    /\ Answered
    /\ login.req = LoginRequest(None, Some("c1"), None)
    /\ QueryGet(login.resp.location, "state") = Some("c1")
    /\ login.resp.status = 302

\* C18: every login request is answered, and the answer is a 302 redirect
\* with a Location and without a body, whatever the request carries and
\* whichever call fails.
C18_AlwaysRedirect ==
    /\ [](Answered => /\ login.resp.status = 302
                       /\ login.resp.body = None
                       /\ login.resp.location.origin \in {GitHub, ChatCraft})
    /\ (login.pc # "idle") ~> Answered
C18_Witness ==
    /\ Answered
    /\ login.failed
    /\ login.calls = <<"requestAccessToken", "requestUserInfo">>
    /\ ~Falsy(login.req.chat_id)
    /\ login.resp.status = 302
    /\ login.resp.body = None

\* C19 as stated: a login request without code and with chat_id X is
\* redirected to the provider with state X, which the provider then holds;
\* the request the provider sends back with that state and a code, once
\* completed, is redirected to /c/X, with X as it is for the one name after
\* /c; a completed login that has neither chat_id nor state is redirected to
\* the root.
C19_Original ==
    /\ (Answered /\ Falsy(login.req.code) /\ ~Falsy(login.req.chat_id))
          => QueryGet(login.resp.location, "state") = login.req.chat_id
    /\ (login.pending.waiting /\ ~Falsy(login.pending.chat))
          => login.pending.state = login.pending.chat
    /\ (Completed /\ login.echoed /\ ~Falsy(login.origin))
          => login.resp.location = Url(ChatCraft, <<"c", login.origin[1]>>, <<>>)
    /\ (Completed /\ Falsy(login.req.chat_id) /\ Falsy(login.req.state))
          => login.resp.location = Url(ChatCraft, <<>>, <<>>)

----------------------------------------------------------------------------
(* Properties of a session: a login, then gateway requests with its cookies *)

IsPrefix(s, t) == Len(s) <= Len(t) /\ \A i \in 1..Len(s) : s[i] = t[i]
\* the user the provider names for the code of the login just completed
LoggedIn(u) ==
    /\ Completed
    /\ login.req.code = Some(IF u = "alice" THEN "code-alice" ELSE "code-bob")
\* the request just answered carried the cookies that login set, unchanged
WithSessionCookies ==
    /\ Completed
    /\ Len(login.resp.cookies) = 2
    /\ last.req.accessToken = login.resp.cookies[1].value
    /\ last.req.idToken = login.resp.cookies[2].value

\* C22: the calls made for one request are made once each and in order: a
\* Create verifies, lists and puts, a Delete verifies and deletes, a Read
\* gets, a login exchanges the code, fetches the profile and creates two
\* tokens; a call that throws is the last call of its request, and the
\* request is answered with an error and changes nothing.
C22_NoRetry ==
    /\ last.req.op = "PUT" => IsPrefix(last.calls, <<"verify", "list", "put">>)
    /\ last.req.op = "DELETE" => IsPrefix(last.calls, <<"verify", "delete">>)
    /\ last.req.op = "GET" => IsPrefix(last.calls, <<"get">>)
    /\ \A h \in Handlers : IsPrefix(handlers[h].calls, <<"verify", "list">>)
    /\ StorageFailed
          => /\ last.resp.status \in {400, 500}
             /\ last.resp.cookies = <<>>
             /\ last.mutated = {}
             /\ last.calls # <<>>
             /\ last.calls[Len(last.calls)] \in {"list", "put", "delete", "get"}
    /\ IsPrefix(login.calls,
                <<"requestAccessToken", "requestUserInfo", "createToken", "createToken">>)
    /\ login.failed
          => /\ Answered
             /\ login.calls # <<>>
             /\ login.resp.location = Url(ChatCraft, <<>>, <<<<"github_login_error", "">>>>)
             /\ login.resp.cookies = <<>>
C22_Witness ==
    /\ WithSessionCookies
    /\ last.req.op = "PUT"
    /\ last.resp.status = 500
    /\ last.calls = <<"verify", "list", "put">>
    /\ Keys = {}

\* C23: a Create or Delete whose access token verifies for the owner with
\* role "api" is carried out whatever the id_token cookie holds, as long as
\* it is there: forged, expired or another user's, the id token is never
\* verified (the quotas and the bucket permitting); and the 200 response
\* sets exactly the two token values the request carried.
C23_IdTokenPresenceOnly ==
    /\ (/\ Mutating
        /\ ~Missing(last.req.idToken)
        /\ last.req.op = "PUT" => last.req.contentType = Json
        /\ Len(last.req.path) = 2
        /\ last.req.accessToken.kind = "jwt"
        /\ last.req.accessToken.secret = JWT_SECRET
        /\ last.req.accessToken.sub = last.req.path[1]
        /\ last.req.accessToken.claims = {<<"role", "api">>}
        /\ last.req.accessToken.exp >= clock
        /\ last.seen.total <= TotalLimit /\ last.seen.recent <= DailyLimit
        /\ ~StorageFailed)
          => /\ last.resp.status = 200
             /\ last.mutated \subseteq {Key(last.req.path)}
    /\ (Mutating /\ last.resp.status = 200)
          => /\ Len(last.resp.cookies) = 2
             /\ last.resp.cookies[1] = [name |-> "access_token", value |-> last.req.accessToken]
             /\ last.resp.cookies[2] = [name |-> "id_token", value |-> last.req.idToken]
    /\ Cardinality({i \in 1..Len(last.calls) : last.calls[i] = "verify"}) <= 1
C23_Witness ==
    /\ LoggedIn("alice")
    /\ last.req.op = "PUT"
    /\ last.req.path = <<"alice", 1>>
    /\ last.req.accessToken = login.resp.cookies[1].value
    /\ last.req.idToken = ForgedId
    /\ last.resp.status = 200
    /\ last.resp.cookies[2].value = ForgedId
    /\ <<"alice", 1>> \in Keys

\* C26: the cookies set by a completed login of user u, sent back unchanged,
\* pass the verification, subject and role checks of Create and Delete for
\* every key whose owner is u, so that the bucket is called, and fail the
\* subject check, with 403, for every key of another owner.
C26_LoginToGateway ==
    \A u \in Owners :
        (/\ LoggedIn(u)
         /\ WithSessionCookies
         /\ Mutating
         /\ last.req.op = "PUT" => last.req.contentType = Json
         /\ Len(last.req.path) = 2)
          => /\ last.payload.outcome = "payload"
             /\ last.payload.sub = u
             /\ last.req.path[1] = u
                   => /\ last.resp.status \notin {403, 429}
                      /\ Called("list") \/ Called("delete")
                      /\ ~StorageFailed => last.resp.status = 200
             /\ last.req.path[1] # u
                   => /\ last.resp = errorResponse(403,
                                        "Access Token does not match username", <<>>)
                      /\ last.calls = <<"verify">>
                      /\ last.mutated = {}
C26_Witness ==
    /\ LoggedIn("bob")
    /\ WithSessionCookies
    /\ last.req.op = "DELETE"
    /\ last.req.path = <<"bob", 1>>
    /\ last.resp.status = 200
    /\ last.mutated = {<<"bob", 1>>}

====
